---- MODULE Spec2Model ----
(***************************************************************************)
(* whisper_transcriber: the WhisperXTranscriber model lifecycle and        *)
(* pipeline, the TranscriptionThread worker and the MainWindow handlers of *)
(* src/whisperx_transcriber/gui.py (transcriber.py holds the same          *)
(* WhisperXTranscriber class).                                             *)
(*                                                                         *)
(* The main (UI) thread runs the MainWindow handlers one at a time from    *)
(* its event loop.  Every started TranscriptionThread runs                 *)
(* transcribe_audio on the one shared transcriber; its steps interleave    *)
(* with the handlers and with the steps of other workers at every access   *)
(* to an attribute of the transcriber.  A signal emitted by a worker is    *)
(* queued to the main thread and delivered there in emission order.        *)
(*                                                                         *)
(* The libraries (whisperx, pyannote, yaml, os) are outside the            *)
(* repository: each call into them either returns or raises.  A loaded     *)
(* acoustic model carries the name it was loaded with (the attribute       *)
(* load_model reads), and alignment metadata carries the language code it  *)
(* was loaded for (the key load_align_model reads).                        *)
(***************************************************************************)
EXTENDS Naturals, Sequences, FiniteSets, TLC

\* Worker threads that can be alive at the same time (thread slots).
MaxThreads == 2

Threads == 1..MaxThreads

\* Python's None.
None == [tag |-> "None"]

\* Entries of model_combo the user switches between (gui.py:130).
Names == {"small.en", "tiny.en"}

\* Languages model.transcribe can detect.
Langs == {"en", "fr"}

\* MainWindow has no audio_file attribute until select_file sets it.
Unset == "<unset>"

\* Paths the file dialog can return; "" is a cancelled dialog.
Files == {"/audio/a.wav"}

\* The constant message of TranscriptionThread.run (gui.py:103).
FailedMessage == "Transcription failed. Please check the console for errors."

\* str(e) of an exception raised by whisperx.load_model.
LoadModelError == "load_model error"

VARIABLES
    \* WhisperXTranscriber
    model, model_name, align_model, align_metadata, diarize_model,
    \* MainWindow
    audio_file, file_label, transcribe_button, save_button,
    progress_bar, output_text,
    \* signals queued to the main thread, oldest first
    events,
    \* TranscriptionThread, per slot
    pc,         \* the worker's position; "idle" is a free slot
    opts,       \* self.align_timestamps, self.diarize
    result,     \* transcribe_audio's local variable result
    loaded,     \* the value a load call returned, not yet stored
    ret,        \* how transcribe_audio ended: a returned value or a raised exception
    stages,     \* history: the stages this run invoked, in order, with their outcome
    emitted,    \* history: the signals this run emitted
    \* history: the name of the model the last successful load_model stored,
    \* "" before the first
    last_loaded

transcriber == <<model, model_name, align_model, align_metadata, diarize_model>>
window == <<audio_file, file_label, transcribe_button, save_button,
            progress_bar, output_text>>
locals == <<opts, result, loaded, ret, stages, emitted>>
vars == <<transcriber, window, events, pc, locals, last_loaded>>

-----------------------------------------------------------------------------
\* WhisperXTranscriber.__init__
TranscriberInit ==
    /\ model = None
    /\ align_model = None
    /\ align_metadata = None
    /\ diarize_model = None
    /\ model_name = "small.en"

\* MainWindow.__init__ / init_ui
WindowInit ==
    /\ audio_file = Unset
    /\ file_label = "No file selected"
    /\ transcribe_button = FALSE
    /\ save_button = FALSE
    /\ progress_bar = 0
    /\ output_text = <<>>

NoOpts == [align_timestamps |-> FALSE, diarize |-> FALSE]

Init ==
    /\ TranscriberInit
    /\ WindowInit
    /\ events = <<>>
    /\ pc = [t \in Threads |-> "idle"]
    /\ opts = [t \in Threads |-> NoOpts]
    /\ result = [t \in Threads |-> None]
    /\ loaded = [t \in Threads |-> None]
    /\ ret = [t \in Threads |-> None]
    /\ stages = [t \in Threads |-> <<>>]
    /\ emitted = [t \in Threads |-> <<>>]
    /\ last_loaded = ""

-----------------------------------------------------------------------------
\* os.path.basename on the dialog's paths
basename(path) ==
    IF path = "/audio/a.wav" THEN "a.wav" ELSE path

\* MainWindow.select_file: the dialog returns a path, or "" when cancelled
select_file ==
    \E file_name \in Files \cup {""} :
        /\ IF file_name # ""
             THEN /\ file_label' = basename(file_name)
                  /\ audio_file' = file_name
                  /\ transcribe_button' = TRUE
             ELSE UNCHANGED <<file_label, audio_file, transcribe_button>>
        /\ UNCHANGED <<save_button, progress_bar, output_text>>
        /\ UNCHANGED <<transcriber, last_loaded, events, pc, locals>>

\* MainWindow.change_model, the slot of model_combo.currentTextChanged: the
\* combo box emits it only when its text changes
change_model ==
    \E name \in Names :
        /\ name # model_name
        /\ model_name' = name
        /\ model' = None
        /\ UNCHANGED <<align_model, align_metadata, diarize_model, last_loaded>>
        /\ UNCHANGED <<window, events, pc, locals>>

\* The slot a new TranscriptionThread takes
FreeSlot == CHOOSE t \in Threads : pc[t] = "idle" /\ \A u \in Threads : pc[u] = "idle" => t <= u

\* MainWindow.start_transcription, the slot of transcribe_button.clicked: a
\* disabled button does not emit clicked.  The check boxes are the user's:
\* what isChecked() answers (gui.py:187-188) is an input of the handler
start_transcription ==
    \E align_checkbox, diarize_checkbox \in BOOLEAN :
    /\ transcribe_button
    /\ \E t \in Threads : pc[t] = "idle"
    /\ transcribe_button' = FALSE
    /\ save_button' = FALSE
    /\ progress_bar' = 0
    /\ output_text' = <<"Transcription in progress...">>
    /\ opts' = [opts EXCEPT ![FreeSlot] =
                   [align_timestamps |-> align_checkbox, diarize |-> diarize_checkbox]]
    /\ pc' = [pc EXCEPT ![FreeSlot] = "run"]
    /\ UNCHANGED <<audio_file, file_label>>
    /\ UNCHANGED <<transcriber, last_loaded, events, result, loaded, ret, stages, emitted>>

-----------------------------------------------------------------------------
\* Worker steps.  Each is one step of thread t; a step that calls a library
\* function takes the call's outcome (returns or raises) as its input.

Returned(v) == [kind |-> "return", value |-> v]
Raised(msg) == [kind |-> "raise", message |-> msg]

Log(t, name, ok) ==
    stages' = [stages EXCEPT ![t] = Append(@, [stage |-> name, ok |-> ok])]

\* transcribe_audio returns v to TranscriptionThread.run
Return(t, v) ==
    /\ ret' = [ret EXCEPT ![t] = Returned(v)]
    /\ result' = [result EXCEPT ![t] = None]
    /\ pc' = [pc EXCEPT ![t] = "emit"]

\* Mutant of Except: the except clause returns the result so far
Except_partial(t) == Return(t, result[t])

\* The except clause of transcribe_audio (gui.py:75-79): log, return None
Except(t) == Return(t, None)

\* An exception raised outside the try block leaves transcribe_audio
Propagate(t, msg) ==
    /\ ret' = [ret EXCEPT ![t] = Raised(msg)]
    /\ result' = [result EXCEPT ![t] = None]
    /\ pc' = [pc EXCEPT ![t] = "emit"]

\* Inside the try block, with local result r: go on to the next requested
\* stage, or return r when there is none
Continue(t, r, next) ==
    IF next = "return"
      THEN Return(t, r)
      ELSE /\ result' = [result EXCEPT ![t] = r]
           /\ pc' = [pc EXCEPT ![t] = next]
           /\ UNCHANGED ret

\* Mutant of AfterAlign: diarization runs whether requested or not
AfterAlign_always(t) == "load_diarize_model"

\* if diarize: ... (gui.py:69)
AfterAlign(t) == IF opts[t].diarize THEN "load_diarize_model" ELSE "return"

\* if align_timestamps: ... (gui.py:65)
AfterTranscribe(t) ==
    IF opts[t].align_timestamps THEN "load_align_model" ELSE AfterAlign(t)

\* Mutant of transcribe_audio: the file test comes after the model is loaded
transcribe_audio_loads_first(t) ==
    /\ pc[t] = "run"
    /\ \E exists \in BOOLEAN :
          IF ~exists
            THEN /\ Return(t, None)
                 /\ model' = [model_name |-> model_name]
                 /\ last_loaded' = model_name
            ELSE /\ pc' = [pc EXCEPT ![t] = "load_model"]
                 /\ UNCHANGED <<result, ret, model, last_loaded>>
    /\ UNCHANGED <<model_name, align_model, align_metadata, diarize_model>>
    /\ UNCHANGED <<window, events, opts, loaded, stages, emitted>>

\* TranscriptionThread.run calls transcribe_audio, which first tests
\* os.path.exists(audio_file_path) (gui.py:55-57)
transcribe_audio(t) ==
    /\ pc[t] = "run"
    /\ \E exists \in BOOLEAN :
          IF ~exists
            THEN Return(t, None)
            ELSE /\ pc' = [pc EXCEPT ![t] = "load_model"]
                 /\ UNCHANGED <<result, ret>>
    /\ UNCHANGED <<transcriber, last_loaded, window, events, opts, loaded, stages, emitted>>

\* Mutant of NeedsModel: every run loads the model
NeedsModel_always == TRUE

\* The test of load_model (gui.py:23)
NeedsModel ==
    model = None \/ model.model_name # model_name

\* WhisperXTranscriber.load_model up to the return of whisperx.load_model;
\* called before the try block (gui.py:59)
load_model(t) ==
    /\ pc[t] = "load_model"
    /\ IF NeedsModel
         THEN \E ok \in BOOLEAN :
                /\ UNCHANGED stages
                /\ IF ok
                     THEN /\ loaded' = [loaded EXCEPT ![t] = [model_name |-> model_name]]
                          /\ pc' = [pc EXCEPT ![t] = "store_model"]
                          /\ UNCHANGED <<result, ret>>
                     ELSE /\ Propagate(t, LoadModelError)
                          /\ UNCHANGED loaded
         ELSE /\ pc' = [pc EXCEPT ![t] = "load_audio"]
              /\ UNCHANGED <<result, ret, loaded, stages>>
    /\ UNCHANGED <<transcriber, last_loaded, window, events, opts, emitted>>

\* self.model = <the loaded model> (gui.py:25)
store_model(t) ==
    /\ pc[t] = "store_model"
    /\ model' = loaded[t]
    /\ last_loaded' = loaded[t].model_name
    /\ loaded' = [loaded EXCEPT ![t] = None]
    /\ pc' = [pc EXCEPT ![t] = "load_audio"]
    /\ UNCHANGED <<model_name, align_model, align_metadata, diarize_model>>
    /\ UNCHANGED <<window, events, opts, result, ret, stages, emitted>>

\* audio = whisperx.load_audio(audio_file_path) (gui.py:62)
load_audio(t) ==
    /\ pc[t] = "load_audio"
    /\ \E ok \in BOOLEAN :
          /\ UNCHANGED stages
          /\ IF ok
               THEN /\ pc' = [pc EXCEPT ![t] = "transcribe"]
                    /\ UNCHANGED <<result, ret>>
               ELSE Except(t)
    /\ UNCHANGED <<transcriber, last_loaded, window, events, opts, loaded, emitted>>

\* result = self.model.transcribe(audio, batch_size=16) (gui.py:63), for audio
\* whose language is detected as one of detectable: with self.model None
\* the attribute lookup raises and nothing is called
Transcribe(t, detectable) ==
    /\ pc[t] = "transcribe"
    /\ IF model = None
         THEN Except(t) /\ UNCHANGED stages
         ELSE \E ok \in BOOLEAN :
                /\ Log(t, "transcribe", ok)
                /\ IF ok
                     THEN \E lang \in detectable :
                            Continue(t, [by |-> "transcribe", language |-> lang],
                                     AfterTranscribe(t))
                     ELSE Except(t)
    /\ UNCHANGED <<transcriber, last_loaded, window, events, opts, loaded, emitted>>

transcribe(t) == Transcribe(t, Langs)

\* The test of load_align_model (gui.py:29); evaluated only when it can be:
\* subscripting a None align_metadata raises
NeedsAlignModel(language_code) ==
    align_model = None \/ align_metadata.language_code # language_code

\* WhisperXTranscriber.load_align_model(result['language']) up to the return
\* of whisperx.load_align_model (gui.py:66, 29-31)
load_align_model(t) ==
    /\ pc[t] = "load_align_model"
    /\ IF align_model # None /\ align_metadata = None
         THEN Except(t) /\ UNCHANGED <<loaded, stages>>
         ELSE IF NeedsAlignModel(result[t].language)
           THEN \E ok \in BOOLEAN :
                  /\ UNCHANGED stages
                  /\ IF ok
                       THEN /\ loaded' = [loaded EXCEPT ![t] =
                                 [align_model |-> [language |-> result[t].language],
                                  align_metadata |-> [language_code |-> result[t].language]]]
                            /\ pc' = [pc EXCEPT ![t] = "store_align_model"]
                            /\ UNCHANGED <<result, ret>>
                       ELSE Except(t) /\ UNCHANGED loaded
           ELSE /\ pc' = [pc EXCEPT ![t] = "align"]
                /\ UNCHANGED <<result, ret, loaded, stages>>
    /\ UNCHANGED <<transcriber, last_loaded, window, events, opts, emitted>>

\* self.align_model, self.align_metadata = ...: the first store (gui.py:31)
store_align_model(t) ==
    /\ pc[t] = "store_align_model"
    /\ align_model' = loaded[t].align_model
    /\ pc' = [pc EXCEPT ![t] = "store_align_metadata"]
    /\ UNCHANGED <<model, model_name, align_metadata, diarize_model, last_loaded>>
    /\ UNCHANGED <<window, events, locals>>

\* self.align_model, self.align_metadata = ...: the second store (gui.py:31)
store_align_metadata(t) ==
    /\ pc[t] = "store_align_metadata"
    /\ align_metadata' = loaded[t].align_metadata
    /\ loaded' = [loaded EXCEPT ![t] = None]
    /\ pc' = [pc EXCEPT ![t] = "align"]
    /\ UNCHANGED <<model, model_name, align_model, diarize_model, last_loaded>>
    /\ UNCHANGED <<window, events, opts, result, ret, stages, emitted>>

\* result = whisperx.align(result["segments"], self.align_model,
\* self.align_metadata, ...) (gui.py:67)
align(t) ==
    /\ pc[t] = "align"
    /\ \E ok \in BOOLEAN :
          /\ Log(t, "align", ok)
          /\ IF ok
               THEN Continue(t, [by |-> "align"], AfterAlign(t))
               ELSE Except(t)
    /\ UNCHANGED <<transcriber, last_loaded, window, events, opts, loaded, emitted>>

\* The pipeline load_diarize_model builds (gui.py:39-51)
Pipeline == [tag |-> "SpeakerDiarization"]

\* WhisperXTranscriber.load_diarize_model up to the return of
\* diarization_pipeline.instantiate (gui.py:70, 35-51)
load_diarize_model(t) ==
    /\ pc[t] = "load_diarize_model"
    /\ IF diarize_model = None
         THEN \E ok \in BOOLEAN :
                /\ UNCHANGED stages
                /\ IF ok
                     THEN /\ loaded' = [loaded EXCEPT ![t] = Pipeline]
                          /\ pc' = [pc EXCEPT ![t] = "store_diarize_model"]
                          /\ UNCHANGED <<result, ret>>
                     ELSE Except(t) /\ UNCHANGED loaded
         ELSE /\ pc' = [pc EXCEPT ![t] = "diarize"]
              /\ UNCHANGED <<result, ret, loaded, stages>>
    /\ UNCHANGED <<transcriber, last_loaded, window, events, opts, emitted>>

\* self.diarize_model = <the instantiated pipeline> (gui.py:51)
store_diarize_model(t) ==
    /\ pc[t] = "store_diarize_model"
    /\ diarize_model' = loaded[t]
    /\ loaded' = [loaded EXCEPT ![t] = None]
    /\ pc' = [pc EXCEPT ![t] = "diarize"]
    /\ UNCHANGED <<model, model_name, align_model, align_metadata, last_loaded>>
    /\ UNCHANGED <<window, events, opts, result, ret, stages, emitted>>

\* diarize_segments = self.diarize_model(audio_file_path) (gui.py:71)
diarize(t) ==
    /\ pc[t] = "diarize"
    /\ \E ok \in BOOLEAN :
          /\ Log(t, "diarize", ok)
          /\ IF ok
               THEN /\ pc' = [pc EXCEPT ![t] = "assign_word_speakers"]
                    /\ UNCHANGED <<result, ret>>
               ELSE Except(t)
    /\ UNCHANGED <<transcriber, last_loaded, window, events, opts, loaded, emitted>>

\* result = whisperx.assign_word_speakers(diarize_segments, result); return
\* result (gui.py:72-74).  speaker: whether the segment got a speaker label
assign_word_speakers(t) ==
    /\ pc[t] = "assign_word_speakers"
    /\ \E ok \in BOOLEAN :
          /\ UNCHANGED stages
          /\ IF ok
               THEN \E speaker \in BOOLEAN :
                      Return(t, [by |-> "assign_word_speakers", speaker |-> speaker])
               ELSE Except(t)
    /\ UNCHANGED <<transcriber, last_loaded, window, events, opts, loaded, emitted>>

\* Python's truth value of transcribe_audio's result: None is false, and the
\* dictionaries the stages return are never empty
Truthy(v) == v # None

\* transcription_complete = pyqtSignal(dict), transcription_error =
\* pyqtSignal(str) (gui.py:87-88), as queued by thread t
Complete(t, r) == [signal |-> "transcription_complete", result |-> r, thread |-> t]
Error(t, msg) == [signal |-> "transcription_error", message |-> msg, thread |-> t]

\* The signal TranscriptionThread.run emits (gui.py:98-105)
RunSignal(t) ==
    IF ret[t].kind = "raise"
      THEN Error(t, ret[t].message)
      ELSE IF Truthy(ret[t].value)
        THEN Complete(t, ret[t].value)
        ELSE Error(t, FailedMessage)

\* Mutant of run: no else before the error emit, so a result is followed by
\* the error signal as well
run_no_else(t) ==
    /\ pc[t] = "emit"
    /\ events' = IF RunSignal(t).signal = "transcription_complete"
                   THEN events \o <<RunSignal(t), Error(t, FailedMessage)>>
                   ELSE Append(events, RunSignal(t))
    /\ emitted' = [emitted EXCEPT ![t] =
                      IF RunSignal(t).signal = "transcription_complete"
                        THEN <<"transcription_complete", "transcription_error">>
                        ELSE <<"transcription_error">>]
    /\ pc' = [pc EXCEPT ![t] = "done"]
    /\ UNCHANGED <<transcriber, last_loaded, window, opts, result, loaded, ret, stages>>

\* Mutant of run: no except clause, so an exception of transcribe_audio ends
\* the thread without a signal
run_no_except(t) ==
    /\ pc[t] = "emit"
    /\ IF ret[t].kind = "raise"
         THEN UNCHANGED <<events, emitted>>
         ELSE /\ events' = Append(events, RunSignal(t))
              /\ emitted' = [emitted EXCEPT ![t] = Append(@, RunSignal(t).signal)]
    /\ pc' = [pc EXCEPT ![t] = "done"]
    /\ UNCHANGED <<transcriber, last_loaded, window, opts, result, loaded, ret, stages>>

\* Mutant of run: the result is never signalled
run_silent(t) ==
    /\ pc[t] = "emit"
    /\ pc' = [pc EXCEPT ![t] = "done"]
    /\ UNCHANGED <<transcriber, last_loaded, window, events, opts, result, loaded,
                   ret, stages, emitted>>

\* TranscriptionThread.run after transcribe_audio has returned or raised:
\* the emitted signal is queued to the main thread, and run ends
run(t) ==
    /\ pc[t] = "emit"
    /\ events' = Append(events, RunSignal(t))
    /\ emitted' = [emitted EXCEPT ![t] = Append(@, RunSignal(t).signal)]
    /\ pc' = [pc EXCEPT ![t] = "done"]
    /\ UNCHANGED <<transcriber, last_loaded, window, opts, result, loaded, ret, stages>>

-----------------------------------------------------------------------------
\* The lines display_transcription appends for the segments of a result
\* (gui.py:202-208), given what the check boxes answer at that time
Render(r, align_checkbox, diarize_checkbox) ==
    (IF align_checkbox THEN <<"[start - end]">> ELSE <<>>)
      \o (IF diarize_checkbox /\ r.by = "assign_word_speakers" /\ r.speaker
            THEN <<"Speaker:">> ELSE <<>>)
      \o <<"text", "">>

\* MainWindow.display_transcription, the slot of transcription_complete
display_transcription(r) ==
    /\ \E align_checkbox, diarize_checkbox \in BOOLEAN :
          output_text' = Render(r, align_checkbox, diarize_checkbox)
    /\ transcribe_button' = TRUE
    /\ save_button' = TRUE
    /\ progress_bar' = 100
    /\ UNCHANGED <<audio_file, file_label>>

\* MainWindow.display_error, the slot of transcription_error
display_error(error_message) ==
    /\ output_text' = <<"Error: " \o error_message>>
    /\ transcribe_button' = TRUE
    /\ progress_bar' = 0
    /\ UNCHANGED <<audio_file, file_label, save_button>>

\* The main thread's event loop delivers the oldest queued signal to its
\* slot; the finished thread's slot becomes free
deliver ==
    /\ events # <<>>
    /\ LET e == Head(events) IN
         /\ IF e.signal = "transcription_complete"
              THEN display_transcription(e.result)
              ELSE display_error(e.message)
         /\ events' = Tail(events)
         /\ pc' = [pc EXCEPT ![e.thread] = "idle"]
         /\ opts' = [opts EXCEPT ![e.thread] = NoOpts]
         /\ ret' = [ret EXCEPT ![e.thread] = None]
         /\ stages' = [stages EXCEPT ![e.thread] = <<>>]
         /\ emitted' = [emitted EXCEPT ![e.thread] = <<>>]
    /\ UNCHANGED <<transcriber, last_loaded, result, loaded>>

-----------------------------------------------------------------------------
Worker(t) ==
    \/ transcribe_audio(t)
    \/ load_model(t)
    \/ store_model(t)
    \/ load_audio(t)
    \/ transcribe(t)
    \/ load_align_model(t)
    \/ store_align_model(t)
    \/ store_align_metadata(t)
    \/ align(t)
    \/ load_diarize_model(t)
    \/ store_diarize_model(t)
    \/ diarize(t)
    \/ assign_word_speakers(t)
    \/ run(t)

Next ==
    \/ select_file
    \/ change_model
    \/ start_transcription
    \/ deliver
    \/ \E t \in Threads : Worker(t)

Spec == Init /\ [][Next]_vars

-----------------------------------------------------------------------------
\* The same program on audio of one language, under the scheduling the
\* threads and the Qt event loop give: a worker that can take a step
\* eventually takes one, and a queued signal is eventually delivered.  The
\* user owes nothing: select_file, change_model and start_transcription may
\* happen at any time or never.
FairLangs == {"en"}

transcribe_en(t) == Transcribe(t, FairLangs)

FairWorker(t) ==
    \/ transcribe_audio(t)
    \/ load_model(t)
    \/ store_model(t)
    \/ load_audio(t)
    \/ transcribe_en(t)
    \/ load_align_model(t)
    \/ store_align_model(t)
    \/ store_align_metadata(t)
    \/ align(t)
    \/ load_diarize_model(t)
    \/ store_diarize_model(t)
    \/ diarize(t)
    \/ assign_word_speakers(t)
    \/ run(t)

FairNext ==
    \/ select_file
    \/ change_model
    \/ start_transcription
    \/ deliver
    \/ \E t \in Threads : FairWorker(t)

FairSpec ==
    /\ Init
    /\ [][FairNext]_vars
    /\ WF_vars(deliver)
    /\ \A t \in Threads : WF_vars(FairWorker(t))

-----------------------------------------------------------------------------
\* The stages a run with options o invokes when none of them fails
Expected(o) ==
    <<"transcribe">>
      \o (IF o.align_timestamps THEN <<"align">> ELSE <<>>)
      \o (IF o.diarize THEN <<"diarize">> ELSE <<>>)

\* The call whose value transcribe_audio returns when every requested stage
\* of a run with options o succeeded
LastStage(o) ==
    IF o.diarize THEN "assign_word_speakers"
    ELSE IF o.align_timestamps THEN "align"
    ELSE "transcribe"

AllOk(s) == \A i \in 1..Len(s) : s[i].ok

Succeeded(r) == r # None /\ r.kind = "return" /\ r.value # None

\* transcribe_audio has ended for thread t without a result
Failed(t) == pc[t] \in {"emit", "done"} /\ ~Succeeded(ret[t])

\* Thread t is executing the pipeline
Running(t) == pc[t] \notin {"idle", "done"}

\* C1: in every run the stages invoked so far are a prefix of transcribe,
\* align if requested, diarize if requested, in that order: no stage that was
\* not requested, none twice, and each stage but the last has returned
\* without error; a run that returns a result has invoked all of them.
C1_StageOrder ==
    \A t \in Threads :
        LET s == stages[t]
            e == Expected(opts[t])
        IN  /\ Len(s) <= Len(e)
            /\ \A i \in 1..Len(s) :
                  /\ s[i].stage = e[i]
                  /\ (i < Len(s) => s[i].ok)
            /\ (pc[t] = "emit" /\ Succeeded(ret[t])) => (Len(s) = Len(e) /\ AllOk(s))

\* A run with both options has gone through its three stages in order
C1_Witness ==
    \E t \in Threads :
        /\ opts[t] = [align_timestamps |-> TRUE, diarize |-> TRUE]
        /\ Len(stages[t]) = 3
        /\ stages[t][3] = [stage |-> "diarize", ok |-> TRUE]

\* C2: a worker that has finished has emitted exactly one signal, which is
\* transcription_complete or transcription_error and is the one signal
\* of that run queued or delivered; a worker that has not finished has
\* emitted none.
C2_ExactlyOneSignal ==
    \A t \in Threads :
        IF pc[t] = "done"
          THEN /\ Len(emitted[t]) = 1
               /\ emitted[t][1] \in {"transcription_complete", "transcription_error"}
               /\ Cardinality({i \in DOMAIN events : events[i].thread = t}) = 1
          ELSE /\ emitted[t] = <<>>
               /\ \A i \in DOMAIN events : events[i].thread # t

\* A worker has finished with transcription_complete while another has
\* finished with transcription_error
C2_Witness ==
    \E t, u \in Threads :
        /\ pc[t] = "done" /\ emitted[t] = <<"transcription_complete">>
        /\ pc[u] = "done" /\ emitted[u] = <<"transcription_error">>

\* The message a failed run is reported with
ErrorText(r) == IF r.kind = "raise" THEN r.message ELSE FailedMessage

\* C3 (state part): a finished worker whose run failed (missing file, a
\* failed model load, an exception in a stage) has emitted
\* transcription_error, with a string, and nothing else.
C3_ErrorEmitted ==
    \A t \in Threads :
        (pc[t] = "done" /\ Failed(t)) =>
            /\ emitted[t] = <<"transcription_error">>
            /\ \E i \in DOMAIN events : events[i] = Error(t, ErrorText(ret[t]))

\* C3 (step part): delivering a queued transcription_error leaves the
\* output pane showing 'Error: <message>'.
C3_ErrorShown ==
    (events # <<>> /\ events' = Tail(events)
       /\ Head(events).signal = "transcription_error")
    => output_text' = <<"Error: " \o Head(events).message>>

\* C3: every failure of a run is surfaced as an error string: the worker ends
\* by emitting transcription_error, and the output pane then shows
\* 'Error: <message>'.
C3_FailuresSurfaced == [](C3_ErrorEmitted) /\ [][C3_ErrorShown]_vars

\* The output pane shows the message of an exception that left
\* transcribe_audio, after a run that had loaded nothing
C3_Witness ==
    /\ output_text = <<"Error: load_model error">>
    /\ \A t \in Threads : pc[t] = "idle"

\* C4: whichever external call raises, transcribe_audio returns None: it
\* never ends by propagating an exception to its caller.
C4_NeverPropagates ==
    \A t \in Threads : pc[t] \in {"emit", "done"} => ret[t].kind = "return"

\* Thread t's step calls whisperx.load_model: it ends with a model to store,
\* or with the call's exception
LoadModelInvoked(t) ==
    pc[t] = "load_model" /\ pc'[t] \in {"store_model", "emit"}

C6_AlignMatchesLanguage ==
    [][\A t \in Threads :
          /\ (pc[t] = "load_align_model" /\ pc'[t] = "store_align_model")
             => (align_model = None
                   \/ align_metadata.language_code # result[t].language)
          /\ (pc[t] = "align" /\ pc'[t] # "align")
             => (/\ align_model = [language |-> result[t].language]
                 /\ align_metadata = [language_code |-> result[t].language])]_vars

\* C7: at most one TranscriptionThread is executing the pipeline at any time.
C7_SingleWorker ==
    Cardinality({t \in Threads : Running(t)}) <= 1

\* C8: transcription_complete is queued for a run only if every stage the run
\* requested was invoked and returned without error, and it carries the value
\* of the last requested stage; a run with a failed stage or a failed load
\* never has it queued.
C8_NoPartialResult ==
    \A i \in DOMAIN events :
        events[i].signal = "transcription_complete" =>
            LET t == events[i].thread
                e == Expected(opts[t])
            IN  /\ stages[t] = [j \in 1..Len(e) |-> [stage |-> e[j], ok |-> TRUE]]
                /\ events[i].result.by = LastStage(opts[t])

\* The result of a run with both options is queued
C8_Witness ==
    \E i \in DOMAIN events :
        /\ events[i].signal = "transcription_complete"
        /\ opts[events[i].thread] = [align_timestamps |-> TRUE, diarize |-> TRUE]

\* C9: the step of transcribe_audio that finds the audio file missing returns
\* None, has invoked no model load and no stage, and leaves model,
\* model_name, align_model, align_metadata and diarize_model as they were.
C9_MissingFileInert ==
    [][\A t \in Threads :
          (pc[t] = "run" /\ pc'[t] = "emit")
          => /\ ret'[t] = Returned(None)
             /\ stages'[t] = <<>>
             /\ loaded'[t] = None
             /\ UNCHANGED transcriber]_vars

\* transcribe_audio has returned None before any model was ever loaded: the
\* file was missing
C9_Witness ==
    \E t \in Threads :
        /\ pc[t] = "emit"
        /\ ret[t] = Returned(None)
        /\ stages[t] = <<>>
        /\ last_loaded = ""

\* C10: under FairSpec, a started run is eventually over with its callback
\* delivered, which enables the Transcribe button.
C10_ControlReturns ==
    \A t \in Threads : (pc[t] # "idle") ~> (pc[t] = "idle" /\ transcribe_button)

\* After a failed run: its error is shown, no run is in flight and the
\* Transcribe button is enabled
C10_Witness ==
    /\ output_text = <<"Error: " \o FailedMessage>>
    /\ transcribe_button
    /\ \A t \in Threads : pc[t] = "idle"

\* Thread t's step evaluates self.model.transcribe (gui.py:63)
TranscribeInvoked(t) ==
    pc[t] = "transcribe" /\ pc'[t] # "transcribe"

\* C11: whenever a worker evaluates self.model.transcribe, the transcriber
\* holds a model (model is not None), whatever change_model did meanwhile.
C11_ModelHeldAtTranscribe ==
    [][\A t \in Threads : TranscribeInvoked(t) => model # None]_vars

\* The results transcribe_audio can return (gui.py:63, 67, 72)
Results ==
    [by : {"transcribe"}, language : Langs]
      \cup {[by |-> "align"]}
      \cup [by : {"assign_word_speakers"}, speaker : BOOLEAN]

\* The output pane holds what display_transcription writes for a result
Rendered(text) ==
    \E r \in Results : \E align_checkbox, diarize_checkbox \in BOOLEAN :
        text = Render(r, align_checkbox, diarize_checkbox)

\* C12: the Save Output button is enabled only while the output pane holds
\* the rendered result of a completed transcription: not initially, not
\* while the pane shows "Transcription in progress...", not while it shows
\* "Error: ...".
C12_SaveOnlyWithResult ==
    save_button => Rendered(output_text)

\* The event loop's step delivers the transcription_complete of a run
CompleteDelivered ==
    /\ events # <<>>
    /\ events' = Tail(events)
    /\ Head(events).signal = "transcription_complete"

\* The output pane has the line l
HasLine(text, l) == \E i \in 1..Len(text) : text[i] = l

\* C13: the transcript display_transcription writes for a run has a
\* timestamp line exactly when alignment was requested at the start of that
\* run, and a speaker line only when diarization was requested at the start
\* of that run, whatever the check boxes say when the result arrives.
C13_RenderMatchesStartOptions ==
    [][CompleteDelivered =>
          LET o == opts[Head(events).thread] IN
            /\ HasLine(output_text', "[start - end]") <=> o.align_timestamps
            /\ HasLine(output_text', "Speaker:") => o.diarize]_vars

\* Thread t's step assigns a newly instantiated pipeline to
\* self.diarize_model (gui.py:51)
DiarizeStored(t) ==
    pc[t] = "store_diarize_model" /\ pc'[t] = "diarize"

\* Thread t's step is a load of the pipeline that raised
DiarizeLoadFailed(t) ==
    pc[t] = "load_diarize_model" /\ pc'[t] = "emit"

\* C14: the diarization pipeline is loaded successfully at most once: a held
\* pipeline is never cleared, a new pipeline is stored only when none is
\* held, and a load that failed leaves diarize_model None.
C14_DiarizeLoadedOnce ==
    [][/\ diarize_model # None => diarize_model' = diarize_model
       /\ \A t \in Threads : DiarizeStored(t) => diarize_model = None
       /\ \A t \in Threads : DiarizeLoadFailed(t) => diarize_model' = None]_vars

\* align_model and align_metadata are both unset, or both set from one load
\* (a load returns a model and metadata for the same language)
AlignPairCoherent ==
    \/ align_model = None /\ align_metadata = None
    \/ /\ align_model # None
       /\ align_metadata # None
       /\ align_model.language = align_metadata.language_code

\* A thread is inside the assignment statement of load_align_model
\* (gui.py:31), between its two stores
InAlignAssignment == \E t \in Threads : pc[t] = "store_align_metadata"

\* C15: outside the assignment statement of load_align_model, align_model
\* and align_metadata are both None or both come from the same successful
\* load; and no thread evaluates the test of load_align_model while a model
\* is held and the metadata is None.
C15_AlignPairConsistent ==
    /\ ~InAlignAssignment => AlignPairCoherent
    /\ \A t \in Threads :
          pc[t] = "load_align_model" => ~(align_model # None /\ align_metadata = None)

====
